---- MODULE Spec2Model ----
(***************************************************************************)
(* VATSIM Dispatcher, heatmap generator.                                   *)
(*                                                                         *)
(*   data_processor.py          create_controller_summary_csv and its      *)
(*                              inner extract_info_with_lon                *)
(*   icaotolonlat.py            icaotolonlat and the module-level read_csv *)
(*   retrieve_current_vatsim.py the module-level request and write         *)
(*                                                                         *)
(* A Python str is modelled as a sequence of characters; a character is a  *)
(* one-element name: an ASCII character stands for itself, a non-ASCII     *)
(* character is written by its code point ("U+00DF" is the sharp s).       *)
(***************************************************************************)
EXTENDS Integers, Sequences, FiniteSets, TLC

VARIABLES
    \* extract_info_with_lon, one call
    callsign, area_code, controller_type, cpc,
    \* which script runs, and where it is
    script, pc,
    \* data_processor.py: the input file, the frames, the CSV written, what
    \* was printed, the exception that left the script (if any)
    input_file, df, filtered_df, controller_counts, summary_df,
    output_file, printed, propagated,
    \* icaotolonlat.py: iata-icao.csv, the frame read from it, the argument
    \* and the result of the call
    csv_file, table, icao, result,
    \* retrieve_current_vatsim.py: the outcome of the request, the file written
    response, vatsim_file

classifier_vars == <<callsign, area_code, controller_type, cpc>>

processor_vars ==
    <<input_file, df, filtered_df, controller_counts, summary_df, output_file>>

lookup_vars == <<csv_file, table, icao, result>>

retrieve_vars == <<response, vatsim_file>>

vars ==
    <<classifier_vars, script, pc, processor_vars, printed, propagated,
      lookup_vars, retrieve_vars>>

(***************************************************************************)
(* Characters and the str methods the code calls                           *)
(***************************************************************************)
LowerLetters ==
    <<"a","b","c","d","e","f","g","h","i","j","k","l","m",
      "n","o","p","q","r","s","t","u","v","w","x","y","z">>

UpperLetters ==
    <<"A","B","C","D","E","F","G","H","I","J","K","L","M",
      "N","O","P","Q","R","S","T","U","V","W","X","Y","Z">>

Digits == {"0","1","2","3","4","5","6","7","8","9"}

Range(f) == {f[i] : i \in DOMAIN f}

\* U+00DF sharp s, U+1E9E capital sharp s, U+212A kelvin sign: letters to
\* Python (str.isalnum() is True), with irregular case mappings.
NonAsciiLetters == {"U+00DF", "U+1E9E", "U+212A"}

IndexOf(c, seq) == CHOOSE i \in DOMAIN seq : seq[i] = c

\* \w of a str pattern: [a-zA-Z0-9_] and every character str.isalnum() accepts
IsWord(c) ==
    \/ c \in Range(LowerLetters)
    \/ c \in Range(UpperLetters)
    \/ c \in Digits
    \/ c = "_"
    \/ c \in NonAsciiLetters

\* str.upper() of one character: a str, not always of length 1
UpperChar(c) ==
    IF c \in Range(LowerLetters) THEN <<UpperLetters[IndexOf(c, LowerLetters)]>>
    ELSE IF c = "U+00DF" THEN <<"S", "S">>
    ELSE <<c>>

\* str.lower() of one character
LowerChar(c) ==
    IF c \in Range(UpperLetters) THEN <<LowerLetters[IndexOf(c, UpperLetters)]>>
    ELSE IF c = "U+1E9E" THEN <<"U+00DF">>
    ELSE IF c = "U+212A" THEN <<"k">>
    ELSE <<c>>

RECURSIVE Upper(_)
Upper(s) == IF s = <<>> THEN <<>> ELSE UpperChar(Head(s)) \o Upper(Tail(s))

RECURSIVE Lower(_)
Lower(s) == IF s = <<>> THEN <<>> ELSE LowerChar(Head(s)) \o Lower(Tail(s))

(***************************************************************************)
(* extract_info_with_lon                                                   *)
(***************************************************************************)
SentinelUNKNOWN == <<"U","N","K","N","O","W","N">>
SentinelOTHER == <<"O","T","H","E","R">>
NoMatch == <<"None">>

APP == <<"A","P","P">>
TWR == <<"T","W","R">>
GND == <<"G","N","D">>
CTR == <<"C","T","R">>
DEL == <<"D","E","L">>
DEP == <<"D","E","P">>

\* the alternation (APP|TWR|GND|CTR|DEL|DEP), in the pattern's order
TypeAlternation == <<APP, TWR, GND, CTR, DEL, DEP>>

ControllerTypes == Range(TypeAlternation)

\* s[from .. from+n-1], with 1-based from
Slice(s, from, n) == SubSeq(s, from, from + n - 1)

AllWord(s) == \A i \in DOMAIN s : IsWord(s[i])

\* \w{lo,hi} at the start of s, greedy, then a literal "_": the longest run
\* length n in lo..hi with s[1..n] all \w and s[n+1] = "_"
PrefixRuns(s, lo, hi) ==
    {n \in lo..hi : /\ Len(s) >= n + 1
                    /\ AllWord(Slice(s, 1, n))
                    /\ s[n + 1] = "_"}

Max(S) == CHOOSE x \in S : \A y \in S : y <= x

\* re.search(r'^(\w{3,4})_', callsign): group(1), or NoMatch
AreaMatch(s) ==
    LET runs == PrefixRuns(s, 3, 4)
    IN  IF runs = {} THEN NoMatch ELSE Slice(s, 1, Max(runs))

\* the alternation tried at position i (1-based) in order alt: the first
\* alternative that matches there, or NoMatch
RECURSIVE AltAt(_, _, _)
AltAt(s, i, alt) ==
    IF alt = <<>> THEN NoMatch
    ELSE IF /\ i + Len(Head(alt)) - 1 <= Len(s)
            /\ \A k \in DOMAIN Head(alt) : s[i + k - 1] = Head(alt)[k]
         THEN Head(alt)
         ELSE AltAt(s, i, Tail(alt))

\* a search that keeps the last match instead of the first
RECURSIVE TypeSearchLast(_, _, _)
TypeSearchLast(s, i, alt) ==
    IF i > Len(s) THEN NoMatch
    ELSE IF TypeSearchLast(s, i + 1, alt) # NoMatch
         THEN TypeSearchLast(s, i + 1, alt)
         ELSE IF s[i] = "_" THEN AltAt(s, i + 1, alt) ELSE NoMatch

\* re.search of "_" followed by the alternation, scanning start positions
\* from i on, leftmost match wins
RECURSIVE TypeSearchFrom(_, _, _)
TypeSearchFrom(s, i, alt) ==
    IF i > Len(s) THEN NoMatch
    ELSE LET here == IF s[i] = "_" THEN AltAt(s, i + 1, alt) ELSE NoMatch
         IN  IF here # NoMatch THEN here ELSE TypeSearchFrom(s, i + 1, alt)

\* re.search(r'_(APP|TWR|GND|CTR|DEL|DEP)', callsign): group(1), or NoMatch
TypeMatch(s) == TypeSearchFrom(s, 1, TypeAlternation)

AreaCode(s) ==
    LET area_match == AreaMatch(s)
    IN  IF area_match # NoMatch THEN Upper(area_match) ELSE SentinelUNKNOWN

ControllerType(s) ==
    LET type_match == TypeMatch(s)
    IN  IF type_match # NoMatch THEN type_match ELSE SentinelOTHER

\* the pd.Series([area_code, controller_type]) the function returns
extract_info_with_lon(s) == <<AreaCode(s), ControllerType(s)>>

(***************************************************************************)
(* Inputs of the classifier: callsigns put together from pieces            *)
(***************************************************************************)
MaxPieces == 4

Pieces ==
    {<<"_">>, <<"a">>, <<"B">>, <<"-">>, <<"U+00DF">>, <<"7">>} \cup ControllerTypes

RECURSIVE Concats(_)
Concats(n) ==
    IF n = 0 THEN {<<>>}
    ELSE LET shorter == Concats(n - 1)
         IN  shorter \cup {s \o p : s \in shorter, p \in Pieces}

Callsigns == Concats(MaxPieces)

\* every variable of the scripts, at rest while one call of the classifier
\* is looked at on its own
ScriptsIdle ==
    /\ script = "none"
    /\ pc = "done"
    /\ input_file = [state |-> "missing", records |-> <<>>]
    /\ df = [columns |-> {}, rows |-> <<>>]
    /\ filtered_df = <<>>
    /\ controller_counts = {}
    /\ summary_df = [index |-> <<>>, columns |-> <<>>, cell |-> <<>>]
    /\ output_file = [written |-> FALSE, header |-> <<>>, rows |-> <<>>]
    /\ printed = "nothing"
    /\ propagated = FALSE
    /\ csv_file = [state |-> "missing", rows |-> <<>>]
    /\ table = <<>>
    /\ icao = <<>>
    /\ result = [status |-> "none"]
    /\ response = [status |-> "none", text |-> "none"]
    /\ vatsim_file = [written |-> FALSE, text |-> "none"]

ClassifyInit ==
    /\ callsign \in Callsigns
    /\ area_code = NoMatch
    /\ controller_type = NoMatch
    /\ cpc = "call"
    /\ ScriptsIdle

\* one call of extract_info_with_lon
Classify ==
    /\ cpc = "call"
    /\ area_code' = extract_info_with_lon(callsign)[1]
    /\ controller_type' = extract_info_with_lon(callsign)[2]
    /\ cpc' = "returned"
    /\ UNCHANGED <<callsign, script, pc, processor_vars, printed, propagated,
                   lookup_vars, retrieve_vars>>

ClassifyNext == Classify

SpecClassify == ClassifyInit /\ [][ClassifyNext]_vars

\* callsigns for the controller-type search: underscores, the six types with
\* and without an underscore before them, a type in lower case, the start
\* of a type
MaxTypePieces == 2

TypePieces ==
    {<<"_">>, CTR, <<"D","E">>, <<"_","c","t","r">>}
        \cup {<<"_">> \o t : t \in ControllerTypes}

RECURSIVE TypeConcats(_)
TypeConcats(n) ==
    IF n = 0 THEN {<<>>}
    ELSE LET shorter == TypeConcats(n - 1)
         IN  shorter \cup {s \o p : s \in shorter, p \in TypePieces}

AlternationInit ==
    /\ callsign \in TypeConcats(MaxTypePieces)
    /\ area_code = NoMatch
    /\ controller_type = NoMatch
    /\ cpc = "call"
    /\ ScriptsIdle

SpecAlternation == AlternationInit /\ [][ClassifyNext]_vars

(***************************************************************************)
(* data_processor.py: create_controller_summary_csv                        *)
(***************************************************************************)
\* the value of a record's 'callsign' key: a str, a JSON value that is not a
\* str (a number, null), or no such key
StrCell(s) == [kind |-> "str", str |-> s]
NotStrCell == [kind |-> "number", str |-> <<>>]
NoKey == [kind |-> "absent", str |-> <<>>]
NaNCell == [kind |-> "nan", str |-> <<>>]

\* the exception classes the scripts meet, each with its base classes
Bases(exc) ==
    CASE exc = "FileNotFoundError" -> {"FileNotFoundError", "OSError", "Exception"}
      [] exc = "JSONDecodeError" -> {"JSONDecodeError", "ValueError", "Exception"}
      [] exc = "KeyError" -> {"KeyError", "LookupError", "Exception"}
      [] exc = "TypeError" -> {"TypeError", "Exception"}
      [] exc = "ValueError" -> {"ValueError", "Exception"}
      [] exc = "ConnectionError" -> {"ConnectionError", "OSError", "Exception"}

\* a second clause that takes ValueError only
HandlerNarrow(exc) ==
    IF "FileNotFoundError" \in Bases(exc) THEN "except FileNotFoundError"
    ELSE IF "ValueError" \in Bases(exc) THEN "except Exception"
    ELSE "uncaught"

\* the two clauses in the other order
HandlerGenericFirst(exc) ==
    IF "Exception" \in Bases(exc) THEN "except Exception"
    ELSE IF "FileNotFoundError" \in Bases(exc) THEN "except FileNotFoundError"
    ELSE "uncaught"

\* the except clauses of create_controller_summary_csv, in their order
Handler(exc) ==
    IF "FileNotFoundError" \in Bases(exc) THEN "except FileNotFoundError"
    ELSE IF "Exception" \in Bases(exc) THEN "except Exception"
    ELSE "uncaught"

\* pd.DataFrame(data): one row per record, a column per key some record has;
\* a record without the key holds NaN there
DataFrame(data) ==
    [columns |-> IF \E i \in DOMAIN data : data[i].callsign # NoKey
                 THEN {"callsign"} ELSE {},
     rows |-> [i \in DOMAIN data |->
                  [callsign |-> IF data[i].callsign = NoKey
                                THEN NaNCell ELSE data[i].callsign]]]

\* df['callsign'].apply(extract_info_with_lon): the exception it raises, or
\* "none"; re.search raises TypeError on a value that is not a str
ApplyRaises(frame) ==
    IF "callsign" \notin frame.columns THEN "KeyError"
    ELSE IF \E i \in DOMAIN frame.rows : frame.rows[i].callsign.kind # "str"
         THEN "TypeError"
         ELSE "none"

\* df[['area_code', 'controller_type']] = df['callsign'].apply(...)
ApplyExtract(frame) ==
    [columns |-> frame.columns \cup {"area_code", "controller_type"},
     rows |-> [i \in DOMAIN frame.rows |->
                  [callsign |-> frame.rows[i].callsign,
                   area_code |-> extract_info_with_lon(frame.rows[i].callsign.str)[1],
                   controller_type |->
                       extract_info_with_lon(frame.rows[i].callsign.str)[2]]]]

\* the filter with | for &
KeepsEither(row) ==
    \/ row.area_code # SentinelUNKNOWN
    \/ row.controller_type # SentinelOTHER

\* df[(df['area_code'] != 'UNKNOWN') & (df['controller_type'] != 'OTHER')]
Keeps(row) ==
    /\ row.area_code # SentinelUNKNOWN
    /\ row.controller_type # SentinelOTHER

FilterRows(rows) == SelectSeq(rows, Keeps)

\* groupby(['area_code', 'controller_type']).size().reset_index(name='count')
GroupSize(rows) ==
    {[area_code |-> rows[i].area_code,
      controller_type |-> rows[i].controller_type,
      count |-> Cardinality({j \in DOMAIN rows :
                                /\ rows[j].area_code = rows[i].area_code
                                /\ rows[j].controller_type = rows[i].controller_type})]
        : i \in DOMAIN rows}

\* code points, ascending: how Python orders the characters of two str
CodePointOrder ==
    <<"-", "0","1","2","3","4","5","6","7","8","9">> \o UpperLetters \o <<"_">>
        \o LowerLetters \o <<"U+00DF", "U+1E9E", "U+212A">>

RECURSIVE StrLeq(_, _)
StrLeq(a, b) ==
    IF a = <<>> THEN TRUE
    ELSE IF b = <<>> THEN FALSE
    ELSE IF Head(a) = Head(b) THEN StrLeq(Tail(a), Tail(b))
    ELSE IndexOf(Head(a), CodePointOrder) < IndexOf(Head(b), CodePointOrder)

\* the sorted labels of a pivot axis
RECURSIVE SortedLabels(_)
SortedLabels(S) ==
    IF S = {} THEN <<>>
    ELSE LET first == CHOOSE x \in S : \A y \in S : StrLeq(x, y)
         IN  <<first>> \o SortedLabels(S \ {first})

\* pivot_table(index='area_code', columns='controller_type', values='count',
\* fill_value=0): a row per area code and a column per controller type of
\* the counts, the labels of each axis sorted, a missing pair filled with 0
PivotTable(counts) ==
    LET areas == {c.area_code : c \in counts}
        types == {c.controller_type : c \in counts}
    IN  [index |-> SortedLabels(areas),
         columns |-> SortedLabels(types),
         cell |-> [a \in areas |-> [t \in types |->
                     IF \E c \in counts : c.area_code = a /\ c.controller_type = t
                     THEN (CHOOSE c \in counts :
                              c.area_code = a /\ c.controller_type = t).count
                     ELSE 0]]]

Total_Score == <<"Total_Score">>

RECURSIVE SumOver(_, _)
SumOver(f, S) ==
    IF S = {} THEN 0
    ELSE LET x == CHOOSE x \in S : TRUE IN f[x] + SumOver(f, S \ {x})

\* summary_df['Total_Score'] = summary_df.sum(axis=1)
AddTotalScore(summary) ==
    [index |-> summary.index,
     columns |-> Append(summary.columns, Total_Score),
     cell |-> [a \in DOMAIN summary.cell |->
                 [t \in DOMAIN summary.cell[a] \cup {Total_Score} |->
                     IF t = Total_Score
                     THEN SumOver(summary.cell[a], DOMAIN summary.cell[a])
                     ELSE summary.cell[a][t]]]]

\* the sort with ascending=True
SortValuesAscending(summary) ==
    {order \in [DOMAIN summary.index -> Range(summary.index)] :
        /\ \A i, j \in DOMAIN order : i # j => order[i] # order[j]
        /\ \A i, j \in DOMAIN order :
              i < j => summary.cell[order[i]][Total_Score]
                          <= summary.cell[order[j]][Total_Score]}

\* the orders sort_values(by='Total_Score', ascending=False) may leave the
\* rows in: the default kind is not stable, so any order of the rows that
\* is non-increasing in Total_Score
SortValuesOrders(summary) ==
    {order \in [DOMAIN summary.index -> Range(summary.index)] :
        /\ \A i, j \in DOMAIN order : i # j => order[i] # order[j]
        /\ \A i, j \in DOMAIN order :
              i < j => summary.cell[order[i]][Total_Score]
                          >= summary.cell[order[j]][Total_Score]}

\* to_csv: a header line, then a line per row in the frame's order
ToCsv(summary) ==
    [written |-> TRUE,
     header |-> <<<<"area_code">>>> \o summary.columns,
     rows |-> [i \in DOMAIN summary.index |->
                  [area_code |-> summary.index[i],
                   values |-> [k \in DOMAIN summary.columns |->
                                  summary.cell[summary.index[i]][summary.columns[k]]]]]]

(***************************************************************************)
(* icaotolonlat.py                                                         *)
(***************************************************************************)
\* a cell of the latitude or longitude column: a number, NaN (an empty
\* field), or text that is no number
NumCell(n) == [kind |-> "number", v |-> n]
NaNCoord == [kind |-> "nan", v |-> 0]
TextCoord == [kind |-> "text", v |-> 0]
NoneCoord == [kind |-> "None", v |-> 0]

\* float(x) where it returns: the same number as a Python float, nan for NaN
Float(x) == IF x.kind = "number" THEN [kind |-> "float", v |-> x.v]
            ELSE [kind |-> "float nan", v |-> 0]

\* df[df["icao"] == code]: the rows whose icao is that str (NaN equals none)
RowsWithIcao(frame, code) ==
    LET Matches(r) == r.icao.kind = "str" /\ r.icao.str = code
    IN  SelectSeq(frame, Matches)

\* the lookup without icao.upper()
icaotolonlatAsGiven(frame, code) ==
    LET row == RowsWithIcao(frame, code)
    IN  IF row # <<>>
        THEN LET lat == row[1].latitude
                 lon == row[1].longitude
             IN  IF lat.kind = "text" \/ lon.kind = "text"
                 THEN [status |-> "ValueError", lat |-> NoneCoord, lon |-> NoneCoord]
                 ELSE [status |-> "return", lat |-> Float(lat), lon |-> Float(lon)]
        ELSE [status |-> "return", lat |-> NoneCoord, lon |-> NoneCoord]

\* icaotolonlat(icao) on the frame read from iata-icao.csv: what it returns,
\* or the exception float() raises on text
icaotolonlat(frame, code) ==
    LET row == RowsWithIcao(frame, Upper(code))
    IN  IF row # <<>>
        THEN LET lat == row[1].latitude
                 lon == row[1].longitude
             IN  IF lat.kind = "text" \/ lon.kind = "text"
                 THEN [status |-> "ValueError", lat |-> NoneCoord, lon |-> NoneCoord]
                 ELSE [status |-> "return", lat |-> Float(lat), lon |-> Float(lon)]
        ELSE [status |-> "return", lat |-> NoneCoord, lon |-> NoneCoord]

(***************************************************************************)
(* Inputs of the scripts                                                   *)
(***************************************************************************)
MaxRecords == 3
MaxRows == 2

LON_S_CTR == <<"L","O","N","_","S","_","C","T","R">>
lon_APP == <<"l","o","n","_","A","P","P">>
EGLL_TWR == <<"E","G","L","L","_","T","W","R">>
KJFK_DEL == <<"K","J","F","K","_","D","E","L">>
AB_CTR == <<"A","B","_","C","T","R">>
LON_OBS == <<"L","O","N","_","O","B","S">>
RANDOMSTRING == <<"R","A","N","D","O","M","S","T","R","I","N","G">>

RecordCallsigns ==
    {LON_S_CTR, lon_APP, EGLL_TWR, KJFK_DEL, AB_CTR, LON_OBS, RANDOMSTRING}

Records ==
    {[callsign |-> c] : c \in {StrCell(x) : x \in RecordCallsigns}
                               \cup {NotStrCell, NoKey}}

SeqsUpTo(S, n) == UNION {[1..k -> S] : k \in 0..n}

\* current_vatsim_data.json: absent, not JSON, or a list of records
InputFiles ==
    {[state |-> "missing", records |-> <<>>],
     [state |-> "malformed", records |-> <<>>]}
    \cup {[state |-> "list", records |-> r] : r \in SeqsUpTo(Records, MaxRecords)}

ELLX == <<"E","L","L","X">>
ellx == <<"e","l","l","x">>
SS == <<"S","S">>

IcaoCells == {StrCell(ELLX), StrCell(SS), NaNCell}

Coords ==
    {<<NumCell(1), NumCell(2)>>, <<NumCell(3), NumCell(4)>>,
     <<NaNCoord, NumCell(5)>>, <<TextCoord, NumCell(6)>>, <<NumCell(7), TextCoord>>}

CsvRows ==
    {[icao |-> i, latitude |-> c[1], longitude |-> c[2]] :
        i \in IcaoCells, c \in Coords}

\* iata-icao.csv: absent, or its rows
CsvFiles ==
    {[state |-> "missing", rows |-> <<>>]}
    \cup {[state |-> "rows", rows |-> r] : r \in SeqsUpTo(CsvRows, MaxRows)}

\* the arguments icaotolonlat is called with
Codes ==
    {ELLX, ellx, <<"E","l","l","x">>, <<"Z","Z","Z","Z">>, SS,
     <<"U+00DF">>, <<"U+1E9E">>}

\* the request: it raises, or answers with a status and a body
Responses ==
    {[status |-> "ConnectionError", text |-> "none"],
     [status |-> "200", text |-> "controllers"],
     [status |-> "500", text |-> "error page"]}

(***************************************************************************)
(* The scripts, step by step                                               *)
(***************************************************************************)
ClassifierIdle ==
    /\ callsign = <<>>
    /\ area_code = NoMatch
    /\ controller_type = NoMatch
    /\ cpc = "idle"

Init ==
    /\ ClassifierIdle
    /\ df = [columns |-> {}, rows |-> <<>>]
    /\ filtered_df = <<>>
    /\ controller_counts = {}
    /\ summary_df = [index |-> <<>>, columns |-> <<>>, cell |-> <<>>]
    /\ output_file = [written |-> FALSE, header |-> <<>>, rows |-> <<>>]
    /\ printed = "nothing"
    /\ propagated = FALSE
    /\ table = <<>>
    /\ icao = <<>>
    /\ result = [status |-> "none"]
    /\ vatsim_file = [written |-> FALSE, text |-> "none"]
    /\ \/ /\ script = "data_processor"
          /\ pc = "open"
          /\ input_file \in InputFiles
          /\ csv_file = [state |-> "missing", rows |-> <<>>]
          /\ response = [status |-> "none", text |-> "none"]
       \/ /\ script = "icaotolonlat"
          /\ pc = "read_csv"
          /\ input_file = [state |-> "missing", records |-> <<>>]
          /\ csv_file \in CsvFiles
          /\ response = [status |-> "none", text |-> "none"]
       \/ /\ script = "retrieve_current_vatsim"
          /\ pc = "request"
          /\ input_file = [state |-> "missing", records |-> <<>>]
          /\ csv_file = [state |-> "missing", rows |-> <<>>]
          /\ response \in Responses

\* ---- data_processor.py
\* with open(json_file_path) ...: json.load(f); df = pd.DataFrame(data)
Load ==
    /\ script = "data_processor" /\ pc = "open"
    /\ IF input_file.state = "missing"
          THEN pc' = Handler("FileNotFoundError") /\ UNCHANGED df
       ELSE IF input_file.state = "malformed"
          THEN pc' = Handler("JSONDecodeError") /\ UNCHANGED df
       ELSE pc' = "apply" /\ df' = DataFrame(input_file.records)
    /\ UNCHANGED <<classifier_vars, script, input_file, filtered_df,
                   controller_counts, summary_df, output_file, printed,
                   propagated, lookup_vars, retrieve_vars>>

Apply ==
    /\ script = "data_processor" /\ pc = "apply"
    /\ IF ApplyRaises(df) # "none"
          THEN pc' = Handler(ApplyRaises(df)) /\ UNCHANGED df
          ELSE pc' = "filter" /\ df' = ApplyExtract(df)
    /\ UNCHANGED <<classifier_vars, script, input_file, filtered_df,
                   controller_counts, summary_df, output_file, printed,
                   propagated, lookup_vars, retrieve_vars>>

Filter ==
    /\ script = "data_processor" /\ pc = "filter"
    /\ filtered_df' = FilterRows(df.rows)
    /\ pc' = "groupby"
    /\ UNCHANGED <<classifier_vars, script, input_file, df, controller_counts,
                   summary_df, output_file, printed, propagated, lookup_vars,
                   retrieve_vars>>

GroupBy ==
    /\ script = "data_processor" /\ pc = "groupby"
    /\ controller_counts' = GroupSize(filtered_df)
    /\ pc' = "pivot"
    /\ UNCHANGED <<classifier_vars, script, input_file, df, filtered_df,
                   summary_df, output_file, printed, propagated, lookup_vars,
                   retrieve_vars>>

Pivot ==
    /\ script = "data_processor" /\ pc = "pivot"
    /\ summary_df' = PivotTable(controller_counts)
    /\ pc' = "total"
    /\ UNCHANGED <<classifier_vars, script, input_file, df, filtered_df,
                   controller_counts, output_file, printed, propagated,
                   lookup_vars, retrieve_vars>>

TotalScore ==
    /\ script = "data_processor" /\ pc = "total"
    /\ summary_df' = AddTotalScore(summary_df)
    /\ pc' = "sort"
    /\ UNCHANGED <<classifier_vars, script, input_file, df, filtered_df,
                   controller_counts, output_file, printed, propagated,
                   lookup_vars, retrieve_vars>>

SortValues ==
    /\ script = "data_processor" /\ pc = "sort"
    /\ \E order \in SortValuesOrders(summary_df) :
          summary_df' = [summary_df EXCEPT !.index = order]
    /\ pc' = "to_csv"
    /\ UNCHANGED <<classifier_vars, script, input_file, df, filtered_df,
                   controller_counts, output_file, printed, propagated,
                   lookup_vars, retrieve_vars>>

\* summary_df.to_csv(output_csv_path); print("CSV file ... generated successfully.")
WriteCsv ==
    /\ script = "data_processor" /\ pc = "to_csv"
    /\ output_file' = ToCsv(summary_df)
    /\ printed' = "generated successfully"
    /\ pc' = "done"
    /\ UNCHANGED <<classifier_vars, script, input_file, df, filtered_df,
                   controller_counts, summary_df, propagated, lookup_vars,
                   retrieve_vars>>

\* except FileNotFoundError: print("Error: The file ... was not found.")
ExceptFileNotFound ==
    /\ script = "data_processor" /\ pc = "except FileNotFoundError"
    /\ printed' = "was not found"
    /\ pc' = "done"
    /\ UNCHANGED <<classifier_vars, script, processor_vars, propagated,
                   lookup_vars, retrieve_vars>>

\* except Exception as e: print("An unexpected error occurred: ...")
ExceptException ==
    /\ script = "data_processor" /\ pc = "except Exception"
    /\ printed' = "An unexpected error occurred"
    /\ pc' = "done"
    /\ UNCHANGED <<classifier_vars, script, processor_vars, propagated,
                   lookup_vars, retrieve_vars>>

\* an exception no except clause takes leaves the script: the interpreter
\* ends it with a traceback
Uncaught ==
    /\ pc = "uncaught"
    /\ propagated' = TRUE
    /\ pc' = "done"
    /\ UNCHANGED <<classifier_vars, script, processor_vars, printed,
                   lookup_vars, retrieve_vars>>

\* ---- icaotolonlat.py
\* df = pd.read_csv("iata-icao.csv"), at module level, in no try block
ReadCsv ==
    /\ script = "icaotolonlat" /\ pc = "read_csv"
    /\ IF csv_file.state = "missing"
          THEN pc' = "uncaught" /\ UNCHANGED table
          ELSE pc' = "call" /\ table' = csv_file.rows
    /\ UNCHANGED <<classifier_vars, script, processor_vars, printed, propagated,
                   csv_file, icao, result, retrieve_vars>>

\* print(icaotolonlat(code)): the script's own call passes "ellx"; the
\* function takes any str
CallLookup ==
    /\ script = "icaotolonlat" /\ pc = "call"
    /\ \E code \in Codes :
          /\ icao' = code
          /\ result' = icaotolonlat(table, code)
          /\ IF icaotolonlat(table, code).status = "return"
                THEN pc' = "done" /\ printed' = "result"
                ELSE pc' = "uncaught" /\ UNCHANGED printed
    /\ UNCHANGED <<classifier_vars, script, processor_vars, propagated,
                   csv_file, table, retrieve_vars>>

\* ---- retrieve_current_vatsim.py
\* response = requests.request("GET", url, ...), in no try block
Request ==
    /\ script = "retrieve_current_vatsim" /\ pc = "request"
    /\ pc' = IF response.status = "ConnectionError" THEN "uncaught" ELSE "write"
    /\ UNCHANGED <<classifier_vars, script, processor_vars, printed, propagated,
                   lookup_vars, retrieve_vars>>

\* with open(..., 'w') as file: file.write(response.text)
WriteResponse ==
    /\ script = "retrieve_current_vatsim" /\ pc = "write"
    /\ vatsim_file' = [written |-> TRUE, text |-> response.text]
    /\ pc' = "done"
    /\ UNCHANGED <<classifier_vars, script, processor_vars, printed, propagated,
                   lookup_vars, response>>

Next ==
    \/ Load \/ Apply \/ Filter \/ GroupBy \/ Pivot \/ TotalScore \/ SortValues
    \/ WriteCsv \/ ExceptFileNotFound \/ ExceptException \/ Uncaught
    \/ ReadCsv \/ CallLookup
    \/ Request \/ WriteResponse

Spec == Init /\ [][Next]_vars

(***************************************************************************)
(* Properties of extract_info_with_lon                                     *)
(***************************************************************************)
HasNonAscii(s) == \E i \in DOMAIN s : s[i] \in NonAsciiLetters

\* C1: every call returns a pair whose area code is UNKNOWN or an upper-cased
\* string of exactly 3 or 4 word characters, and whose controller type is
\* OTHER or one of the six types; a matched prefix never gives UNKNOWN.
C1_Claim ==
    cpc = "returned" =>
        /\ \/ area_code = SentinelUNKNOWN
           \/ /\ Len(area_code) \in {3, 4}
              /\ AllWord(area_code)
              /\ Upper(area_code) = area_code
        /\ controller_type \in {SentinelOTHER} \cup ControllerTypes
        /\ AreaMatch(callsign) # NoMatch => area_code # SentinelUNKNOWN

\* what is left of C1 when the length is that of the matched prefix, not of
\* its upper-casing
C1_UpToLength ==
    cpc = "returned" =>
        /\ \/ area_code = SentinelUNKNOWN
           \/ \E n \in {3, 4} :
                 /\ Len(callsign) > n
                 /\ AllWord(Slice(callsign, 1, n))
                 /\ area_code = Upper(Slice(callsign, 1, n))
                 /\ AllWord(area_code)
                 /\ Upper(area_code) = area_code
        /\ controller_type \in {SentinelOTHER} \cup ControllerTypes
        /\ AreaMatch(callsign) # NoMatch => area_code # SentinelUNKNOWN

\* C1 on the callsigns of ASCII characters only
C1_Ascii == ~HasNonAscii(callsign) => C1_Claim

Underscores(s) == {i \in DOMAIN s : s[i] = "_"}

Min(S) == CHOOSE x \in S : \A y \in S : x <= y

\* the text of s before its first underscore
BeforeFirstUnderscore(s) == SubSeq(s, 1, Min(Underscores(s)) - 1)

\* C2: an area code other than UNKNOWN is the upper-cased text before the
\* first underscore of the callsign, and that text has length 3 or 4; when
\* the text before the first underscore has another length, the area code
\* is UNKNOWN.
C2_Claim ==
    cpc = "returned" =>
        /\ area_code # SentinelUNKNOWN =>
              /\ Underscores(callsign) # {}
              /\ area_code = Upper(BeforeFirstUnderscore(callsign))
              /\ Len(BeforeFirstUnderscore(callsign)) \in {3, 4}
        /\ (/\ Underscores(callsign) # {}
            /\ Len(BeforeFirstUnderscore(callsign)) \notin {3, 4})
              => area_code = SentinelUNKNOWN

\* C2 on the callsigns whose matched prefix holds no underscore
C2_NoUnderscoreInPrefix ==
    (AreaMatch(callsign) # NoMatch => "_" \notin Range(AreaMatch(callsign)))
        => C2_Claim

\* every order the six alternatives can be written in
AlternationOrders ==
    {alt \in [1..Len(TypeAlternation) -> ControllerTypes] :
        \A i, j \in DOMAIN alt : i # j => alt[i] # alt[j]}

\* the underscores of s that one of the six types follows at once
TypeStarts(s) ==
    {i \in Underscores(s) : /\ i + 3 <= Len(s)
                            /\ Slice(s, i + 1, 3) \in ControllerTypes}

C3_RealAreaRealType ==
    cpc = "returned" /\ area_code # SentinelUNKNOWN /\ controller_type # SentinelOTHER

C3_RealAreaOther ==
    cpc = "returned" /\ area_code # SentinelUNKNOWN /\ controller_type = SentinelOTHER

C3_UnknownOther ==
    cpc = "returned" /\ area_code = SentinelUNKNOWN /\ controller_type = SentinelOTHER

(***************************************************************************)
(* Properties of create_controller_summary_csv                             *)
(***************************************************************************)
InputRecords == input_file.records

AllStrings == \A i \in DOMAIN InputRecords : InputRecords[i].callsign.kind = "str"

\* the classification of input record i, from its callsign alone
ClassOf(i) == extract_info_with_lon(InputRecords[i].callsign.str)

Qualifying ==
    {i \in DOMAIN InputRecords :
        ClassOf(i)[1] # SentinelUNKNOWN /\ ClassOf(i)[2] # SentinelOTHER}

\* the written table: its lines, its columns after the area_code column
OutRows == DOMAIN output_file.rows
OutColumns == 1..(Len(output_file.header) - 1)
OutColumnName(k) == output_file.header[k + 1]
OutArea(i) == output_file.rows[i].area_code
OutValue(i, k) == output_file.rows[i].values[k]
OutTotal(i) == OutValue(i, Len(output_file.rows[i].values))

RECURSIVE SumTo(_, _)
SumTo(f, n) == IF n = 0 THEN 0 ELSE f[n] + SumTo(f, n - 1)

OutTotals == [i \in OutRows |-> OutTotal(i)]

\* the classifications of all input records
InputClasses == [i \in DOMAIN InputRecords |-> ClassOf(i)]

CountIn(classes, a, t) ==
    Cardinality({i \in DOMAIN classes : classes[i] = <<a, t>>})

QualifyingIn(classes) ==
    {i \in DOMAIN classes :
        classes[i][1] # SentinelUNKNOWN /\ classes[i][2] # SentinelOTHER}

\* C4: every count written for a real area code and a controller type is
\* the number of input records classified exactly so, a pair with no
\* written count has no such record, UNKNOWN and OTHER records reach no
\* line, a line exists only for an area code of a qualifying record, and
\* the total scores add up to the number of qualifying records.
C4_Theorem ==
    output_file.written =>
        LET classes == InputClasses
            qualifying == QualifyingIn(classes)
        IN  /\ \A i \in OutRows : \A k \in OutColumns :
                  OutColumnName(k) # Total_Score =>
                     OutValue(i, k) = CountIn(classes, OutArea(i), OutColumnName(k))
            /\ \A r \in DOMAIN classes : \A t \in ControllerTypes :
                  (/\ classes[r][1] # SentinelUNKNOWN
                   /\ ~ \E i \in OutRows, k \in OutColumns :
                          OutArea(i) = classes[r][1] /\ OutColumnName(k) = t)
                     => CountIn(classes, classes[r][1], t) = 0
            /\ \A i \in OutRows :
                  /\ OutArea(i) # SentinelUNKNOWN
                  /\ \E r \in qualifying : classes[r][1] = OutArea(i)
            /\ \A r \in qualifying : \E i \in OutRows : OutArea(i) = classes[r][1]
            /\ \A i, j \in OutRows : i # j => OutArea(i) # OutArea(j)
            /\ \A k \in OutColumns :
                  OutColumnName(k) \in ControllerTypes \cup {Total_Score}
            /\ SumTo(OutTotals, Len(output_file.rows)) = Cardinality(qualifying)

\* a written table with a count of 2, from an input that also holds a
\* record that does not qualify
C4_Witness ==
    /\ output_file.written
    /\ \E i \in OutRows, k \in OutColumns :
          OutColumnName(k) # Total_Score /\ OutValue(i, k) = 2
    /\ Cardinality(Qualifying) < Len(InputRecords)

\* C5: with at least one qualifying record the table has a column for each
\* of APP, TWR, GND, CTR, DEL, DEP, and every line a value in each.
C5_Claim ==
    (output_file.written /\ Qualifying # {}) =>
        /\ \A t \in ControllerTypes : \E k \in OutColumns : OutColumnName(k) = t
        /\ \A i \in OutRows :
              Len(output_file.rows[i].values) = Len(output_file.header) - 1

\* what the table does hold: a column for each controller type of some
\* qualifying record, and a value in each of them on every line
C5_ObservedColumns ==
    (output_file.written /\ Qualifying # {}) =>
        /\ \A t \in ControllerTypes :
              (\E k \in OutColumns : OutColumnName(k) = t)
                 <=> (\E r \in Qualifying : ClassOf(r)[2] = t)
        /\ \A i \in OutRows :
              Len(output_file.rows[i].values) = Len(output_file.header) - 1

\* C6: every line's total_score is the sum of the line's counts, and the
\* lines are in non-increasing order of total_score.
C6_Theorem ==
    output_file.written =>
        /\ \A i \in OutRows :
              /\ OutColumnName(Len(output_file.rows[i].values)) = Total_Score
              /\ OutTotal(i) =
                    SumTo(output_file.rows[i].values,
                          Len(output_file.rows[i].values) - 1)
        /\ \A i, j \in OutRows : i < j => OutTotal(i) >= OutTotal(j)

\* two lines written, the totals 2 and 1, over two count columns
C6_Witness ==
    /\ output_file.written
    /\ Len(output_file.rows) = 2
    /\ OutTotal(1) = 2
    /\ OutTotal(2) = 1
    /\ Len(output_file.header) >= 4

\* C7: an empty list of records, or a list in which no record qualifies,
\* ends on the success path with an empty table written.
C7_Claim ==
    (/\ script = "data_processor"
     /\ pc = "done"
     /\ input_file.state = "list"
     /\ AllStrings
     /\ Qualifying = {})
        => /\ output_file.written
           /\ output_file.rows = <<>>
           /\ printed = "generated successfully"

\* C7 for the lists that are not empty
C7_NonEmptyList == InputRecords # <<>> => C7_Claim

BadInput ==
    \/ input_file.state \in {"missing", "malformed"}
    \/ ~AllStrings

\* C8: the output is written only when the input was read and every record
\* classified and aggregated; on a missing file, malformed JSON, or a record
\* with no callsign or a callsign that is no str, the run prints a message,
\* writes nothing, lets no exception out and ends.
C8_Theorem ==
    script = "data_processor" =>
        /\ output_file.written =>
              /\ input_file.state = "list"
              /\ AllStrings
              /\ Len(df.rows) = Len(InputRecords)
              /\ [i \in DOMAIN df.rows |->
                     <<df.rows[i].area_code, df.rows[i].controller_type>>]
                    = InputClasses
              /\ output_file = ToCsv(summary_df)
              /\ pc = "done"
        /\ (pc = "done" /\ BadInput) =>
              /\ printed \in {"was not found", "An unexpected error occurred"}
              /\ ~output_file.written
        /\ BadInput => ~output_file.written
        /\ ~propagated
        /\ pc # "done" => ENABLED Next

\* a batch of a valid record and a record without callsign, ended
C8_Witness ==
    /\ script = "data_processor"
    /\ pc = "done"
    /\ input_file.state = "list"
    /\ Qualifying # {}
    /\ \E i \in DOMAIN InputRecords : InputRecords[i].callsign = NoKey
    /\ printed = "An unexpected error occurred"
    /\ ~output_file.written

(***************************************************************************)
(* Properties of the scripts' failure paths                                *)
(***************************************************************************)
\* the script could not get its input
AcquireFailed ==
    \/ script = "data_processor" /\ input_file.state = "missing"
    \/ script = "icaotolonlat" /\ csv_file.state = "missing"
    \/ script = "retrieve_current_vatsim" /\ response.status = "ConnectionError"

NoOutput ==
    /\ ~output_file.written
    /\ ~vatsim_file.written
    /\ result.status = "none"

Called == script = "icaotolonlat" /\ result.status # "none"

\* the rows of the table whose icao is the upper-cased argument
MatchingRows == {i \in DOMAIN table : table[i].icao = StrCell(Upper(icao))}

NotFound == [status |-> "return", lat |-> NoneCoord, lon |-> NoneCoord]

\* C10: the result depends only on the upper-cased argument (the same for
\* s, upper(s) and lower(s)); it is the latitude and longitude of the first
\* row whose icao equals upper(s), or the not-found result when there is
\* none, never an error; the table is left unchanged.
C10_Claim ==
    Called =>
        /\ result = icaotolonlat(table, Upper(icao))
        /\ result = icaotolonlat(table, Lower(icao))
        /\ result.status = "return"
        /\ MatchingRows = {} => result = NotFound
        /\ MatchingRows # {} =>
              /\ result.lat = Float(table[Min(MatchingRows)].latitude)
              /\ result.lon = Float(table[Min(MatchingRows)].longitude)
        /\ table = csv_file.rows

\* C10 as amended: the same for s and upper(s), and for lower(s) when
\* upper(lower(s)) = upper(s); the first matching row's coordinates as
\* floats unless one of them is text that is no number, when float() raises
\* ValueError; not found, and no error, when no row matches.
C10_Theorem ==
    Called =>
        /\ result = icaotolonlat(table, Upper(icao))
        /\ Upper(Lower(icao)) = Upper(icao)
              => result = icaotolonlat(table, Lower(icao))
        /\ MatchingRows = {} => result = NotFound
        /\ MatchingRows # {} =>
              LET first == table[Min(MatchingRows)]
              IN  IF first.latitude.kind = "text" \/ first.longitude.kind = "text"
                  THEN result.status = "ValueError"
                  ELSE /\ result.status = "return"
                       /\ result.lat = Float(first.latitude)
                       /\ result.lon = Float(first.longitude)
        /\ table = csv_file.rows

\* a call in lower case that finds the first of two rows of its code
C10_Witness ==
    /\ Called
    /\ icao = ellx
    /\ Cardinality(MatchingRows) = 2
    /\ table[1].latitude # table[2].latitude
    /\ result.status = "return"
    /\ result.lat = Float(table[1].latitude)

\* C10 with the arguments whose lower case upper-cases back, on tables
\* whose coordinates are numbers or empty
C10_Regular ==
    (/\ Upper(Lower(icao)) = Upper(icao)
     /\ \A i \in DOMAIN table :
           table[i].latitude.kind # "text" /\ table[i].longitude.kind # "text")
        => C10_Claim

====
